---- MODULE Spec2Model ----
(***************************************************************************)
(* The TechCrunch summarizer as a state machine.                           *)
(*                                                                         *)
(* Two programs of the repository are modelled, selected by `program`:     *)
(*   "index"     src/index.ts            fetch, summarize, print, notify   *)
(*   "translate" src/unnamed/part_002    the same with the DeepL stage     *)
(* main() is cut at its await points; every network request settles in an  *)
(* action of its own, so requests of one stage complete in any order.      *)
(***************************************************************************)
EXTENDS Integers, Sequences, FiniteSets, TLC

VARIABLES
    program,          \* which of the two programs runs
    env,              \* process.env: which variables are set
    pc,               \* position of main()
    exited,           \* the process has ended
    exitCode,         \* its exit code (meaningful once exited)
    nowMs,            \* Date.now() read by fetchYesterdayArticlesFromTechCrunch
    feed,             \* data.rss.channel.item of the parsed feed
    fetchResult,      \* Result<FeedArticle[]> of the fetch
    completionReqs,   \* user messages of the completion requests issued, in issue order
    summarizings,     \* the promises of summarize(), one per article
    summarizeResult,  \* Result<SummarizedArticle[]> of summarize()
    debugLog,         \* console.debug lines: titles that failed to summarize
    translateReqs,    \* translation requests issued: [index, text]
    translatings,     \* the promises translatingSummaries, one per article
    translatedSummaries, \* the awaited list of part_002
    errorLog,         \* console.error lines, as a set of <<kind, index>>
    warned,           \* console.warn was called
    printed,          \* the lists given to console.log, in order
    posts,            \* webhook POST bodies issued, in issue order
    notifyings,       \* the promises notifyings, one per article
    settleOrder       \* indices of the completion or translation requests of the
                      \* current stage, in the order they settled

vars == <<program, env, pc, exited, exitCode, nowMs, feed, fetchResult,
          completionReqs, summarizings, summarizeResult, debugLog,
          translateReqs, translatings, translatedSummaries, errorLog,
          warned, printed, posts, notifyings, settleOrder>>

----------------------------------------------------------------------------
(* Bounds *)

\* longest feed the model draws
MaxArticles == 3

----------------------------------------------------------------------------
(* Values *)

ONE_DAY_MS == 24 * 60 * 60 * 1000

\* Number.NaN, the time value of an invalid Date
NaN == -1

\* the pubDate strings the modelled feed may carry
PubDateStrings ==
    { "1970-01-01T12:00:00.000Z",     \* older than a day
      "1970-01-02T00:00:00.000Z",     \* exactly a day old at Clock
      "1970-01-02T00:00:00.001Z",     \* one millisecond inside the window
      "yesterday" }                   \* not a date

\* the instants Date.now() may return
Clock == { 2 * ONE_DAY_MS }

\* new Date(s).getTime()
DateParse(s) ==
    CASE s = "1970-01-01T12:00:00.000Z" -> 12 * 60 * 60 * 1000
      [] s = "1970-01-02T00:00:00.000Z" -> ONE_DAY_MS
      [] s = "1970-01-02T00:00:00.001Z" -> ONE_DAY_MS + 1
      [] s = "1970-01-02T12:00:00.000Z" -> 36 * 60 * 60 * 1000
      [] OTHER -> NaN

\* a > b on JavaScript numbers: false when either side is NaN
NumGreater(a, b) == a # NaN /\ b # NaN /\ a > b

\* summary values: undefined, null, or a text
Undefined == [kind |-> "undefined", of |-> 0, lang |-> "-"]
Null      == [kind |-> "null", of |-> 0, lang |-> "-"]
\* the text the completion service writes for the URL it is given
SummaryOf(url) == [kind |-> "text", of |-> url, lang |-> "en"]
\* the text DeepL returns for `text` and target language `targetLang`
TranslationOf(text, targetLang) == [text EXCEPT !.lang = targetLang]

\* Result<T>
ErrorResult     == [kind |-> "error", data |-> <<>>]
DataResult(d)   == [kind |-> "data", data |-> d]
NoResult        == [kind |-> "none", data |-> <<>>]

\* the feeds the model draws: item k has title k and link k
FeedItem(k, d) == [title |-> k, link |-> k, pubDate |-> d]
Feeds ==
    UNION { { [k \in 1..n |-> FeedItem(k, ds[k])] : ds \in [1..n -> PubDateStrings] }
            : n \in 0..MaxArticles }

----------------------------------------------------------------------------
(* loadEnv *)

\* mutant: the DeepL key is not checked
LoadEnvOkOpenAiOnly == env.OPEN_AI_API_KEY

LoadEnvOk ==
    IF program = "index"
    THEN env.OPEN_AI_API_KEY
    ELSE env.OPEN_AI_API_KEY /\ env.DEEPL_API_AUTH_KEY

----------------------------------------------------------------------------
(* fetchYesterdayArticlesFromTechCrunch *)

\* mutant: the bound of the window is included
IsRecentOrEqual(item, now) ==
    DateParse(item.pubDate) # NaN /\ DateParse(item.pubDate) >= now - ONE_DAY_MS

\* the filter callback: pubDateMs > yesterdayMs
IsRecent(item, now) == NumGreater(DateParse(item.pubDate), now - ONE_DAY_MS)

\* data.rss.channel.item.filter(...): the recent items, in feed order
RECURSIVE FilterRecent(_, _)
FilterRecent(items, now) ==
    IF items = <<>> THEN <<>>
    ELSE IF IsRecent(Head(items), now)
         THEN <<Head(items)>> \o FilterRecent(Tail(items), now)
         ELSE FilterRecent(Tail(items), now)

\* data.rss.channel.item.filter(...).map(...)
YesterdayArticles(items, now) ==
    LET recent == FilterRecent(items, now)
    IN [i \in 1..Len(recent) |->
           [title |-> recent[i].title, link |-> recent[i].link,
            pubDate |-> recent[i].pubDate]]

Init ==
    /\ program \in {"index", "translate"}
    /\ env \in [OPEN_AI_API_KEY : BOOLEAN, DEEPL_API_AUTH_KEY : BOOLEAN,
                DISCORD_WEBHOOK_URL : BOOLEAN]
    /\ pc = "start"
    /\ exited = FALSE
    /\ exitCode = 0
    /\ nowMs = 0
    /\ feed = <<>>
    /\ fetchResult = NoResult
    /\ completionReqs = <<>>
    /\ summarizings = <<>>
    /\ summarizeResult = NoResult
    /\ debugLog = <<>>
    /\ translateReqs = <<>>
    /\ translatings = <<>>
    /\ translatedSummaries = <<>>
    /\ errorLog = {}
    /\ warned = FALSE
    /\ printed = <<>>
    /\ posts = <<>>
    /\ notifyings = <<>>
    /\ settleOrder = <<>>

\* main, up to `await fetchYesterdayArticlesFromTechCrunch()`
MainStart ==
    /\ pc = "start"
    /\ ~exited
    /\ IF ~LoadEnvOk
       THEN /\ errorLog' = errorLog \cup {<<"env", 0>>}
            /\ exited' = TRUE
            /\ exitCode' = 1
            /\ UNCHANGED <<pc, nowMs>>
       ELSE /\ \E now \in Clock : nowMs' = now
            /\ pc' = "fetching"
            /\ UNCHANGED <<errorLog, exited, exitCode>>
    /\ UNCHANGED <<program, env, feed, fetchResult, completionReqs, summarizings,
                   summarizeResult, debugLog, translateReqs, translatings,
                   translatedSummaries, warned, printed, posts, notifyings, settleOrder>>

\* `await fetch(feed)` settles: a response, or a transport error caught at line 82
FeedFetchSettle ==
    /\ pc = "fetching"
    /\ ~exited
    /\ \E outcome \in {"response", "throw"} :
         IF outcome = "throw"
         THEN /\ fetchResult' = ErrorResult
              /\ pc' = "fetched"
         ELSE /\ pc' = "readingFeed"
              /\ UNCHANGED fetchResult
    /\ UNCHANGED <<program, env, exited, exitCode, nowMs, feed, completionReqs,
                   summarizings, summarizeResult, debugLog, translateReqs,
                   translatings, translatedSummaries, errorLog, warned, printed,
                   posts, notifyings, settleOrder>>

\* `await res.text()` settles; the XML is parsed and filtered, or something throws
FeedTextSettle ==
    /\ pc = "readingFeed"
    /\ ~exited
    /\ \/ \* the body cannot be read, or the parsed document has no rss.channel.item array
          /\ fetchResult' = ErrorResult
          /\ UNCHANGED feed
       \/ \E items \in Feeds :
          /\ feed' = items
          /\ fetchResult' = DataResult(YesterdayArticles(items, nowMs))
    /\ pc' = "fetched"
    /\ UNCHANGED <<program, env, exited, exitCode, nowMs, completionReqs,
                   summarizings, summarizeResult, debugLog, translateReqs,
                   translatings, translatedSummaries, errorLog, warned, printed,
                   posts, notifyings, settleOrder>>

----------------------------------------------------------------------------
(* Promises *)

Pending        == [state |-> "pending", value |-> Undefined]
Fulfilled(v)   == [state |-> "fulfilled", value |-> v]
Rejected       == [state |-> "rejected", value |-> Undefined]

\* mutant: a join that resolves only when every promise is fulfilled
AllSettledCountsSuccesses(ps) == \A i \in 1..Len(ps) : ps[i].state = "fulfilled"

\* mutant: the join of Promise.all, which also ends at the first rejection
AllSettledFailFast(ps) ==
    \/ \A i \in 1..Len(ps) : ps[i].state = "fulfilled"
    \/ \E i \in 1..Len(ps) : ps[i].state = "rejected"

\* Promise.allSettled(ps) resolves once no promise is pending
AllSettled(ps) == \A i \in 1..Len(ps) : ps[i].state # "pending"

\* Promise.all(ps) resolves once every promise is fulfilled
AllFulfilled(ps) == \A i \in 1..Len(ps) : ps[i].state = "fulfilled"

\* the value of `await Promise.all(ps)`: slot i holds the value of ps[i]
AwaitAll(ps) == [i \in 1..Len(ps) |-> ps[i].value]

\* Promise.all(ps) rejects as soon as one promise is rejected
AnyRejected(ps) == \E i \in 1..Len(ps) : ps[i].state = "rejected"

----------------------------------------------------------------------------
(* summarize *)

SYSTEM_PROMPT == "You're an IT-savvy journalist. Summarize news in around 100 words without title."

\* mutant: the user message does not carry the url
BuildMessageWithoutUrl(url) ==
    << [role |-> "system", content |-> SYSTEM_PROMPT],
       [role |-> "user", content |-> 0] >>

buildMessageWithAritcleUrl(url) ==
    << [role |-> "system", content |-> SYSTEM_PROMPT],
       [role |-> "user", content |-> url] >>

\* how a completion request may end: a text, a message without content,
\* a response without choices, or a rejection of create()
CompletionOutcomes == {"text", "nocontent", "nochoices", "error"}

\* the async callback of articles.map, run to its end for a request `messages`
\* that ended with `outcome`: completion.choices[0].message.content!
Summarizing(messages, outcome) ==
    CASE outcome = "text"      -> Fulfilled(SummaryOf(messages[2].content))
      [] outcome = "nocontent" -> Fulfilled(Null)
      [] outcome = "nochoices" -> Rejected    \* TypeError reading choices[0].message
      [] OTHER                 -> Rejected

\* mutant: the status test inverted
SummarizedArticleInverted(article, summarized) ==
    [title   |-> article.title,
     link    |-> article.link,
     pubDate |-> DateParse(article.pubDate),
     summary |-> IF summarized.state = "fulfilled" THEN Undefined ELSE summarized.value]

\* the callback of summaries.map for one settled promise
SummarizedArticle(article, summarized) ==
    [title   |-> article.title,
     link    |-> article.link,
     pubDate |-> DateParse(article.pubDate),
     summary |-> IF summarized.state = "rejected" THEN Undefined ELSE summarized.value]

\* mutant: results collected in the order the requests settled
SummarizedArticlesByArrival(articles, summaries) ==
    [k \in 1..Len(summaries) |->
        SummarizedArticle(articles[settleOrder[k]], summaries[settleOrder[k]])]

\* summaries.map((summarized, index) => ...): slot index pairs articles[index]
\* with summaries[index]
SummarizedArticles(articles, summaries) ==
    [index \in 1..Len(summaries) |-> SummarizedArticle(articles[index], summaries[index])]

\* the console.debug lines of summaries.map, in index order
RECURSIVE FailedTitles(_, _, _)
FailedTitles(articles, summaries, index) ==
    IF index > Len(summaries) THEN <<>>
    ELSE (IF summaries[index].state = "rejected" THEN <<articles[index].title>> ELSE <<>>)
         \o FailedTitles(articles, summaries, index + 1)

\* mutant: the fetch error is not checked
MainAfterFetchIgnoresError ==
    /\ pc = "fetched"
    /\ ~exited
    /\ completionReqs' =
         [i \in 1..Len(fetchResult.data) |->
             buildMessageWithAritcleUrl(fetchResult.data[i].link)]
    /\ summarizings' = [i \in 1..Len(fetchResult.data) |-> Pending]
    /\ pc' = "summarizing"
    /\ feed' = <<>>
    /\ UNCHANGED <<program, env, exited, exitCode, nowMs, fetchResult, summarizeResult,
                   debugLog, translateReqs, translatings, translatedSummaries,
                   errorLog, warned, printed, posts, notifyings, settleOrder>>

\* main after the fetch: the fatal edge, or the call of summarize(), which
\* issues every completion request before its first await
MainAfterFetch ==
    /\ pc = "fetched"
    /\ ~exited
    /\ IF fetchResult.kind = "error"
       THEN /\ errorLog' = errorLog \cup {<<"feed", 0>>}
            /\ exited' = TRUE
            /\ exitCode' = 1
            /\ UNCHANGED <<pc, completionReqs, summarizings>>
       ELSE /\ completionReqs' =
                 [i \in 1..Len(fetchResult.data) |->
                     buildMessageWithAritcleUrl(fetchResult.data[i].link)]
            /\ summarizings' = [i \in 1..Len(fetchResult.data) |-> Pending]
            /\ pc' = "summarizing"
            /\ UNCHANGED <<errorLog, exited, exitCode>>
    /\ feed' = <<>>
    /\ UNCHANGED <<program, env, nowMs, fetchResult, summarizeResult, debugLog,
                   translateReqs, translatings, translatedSummaries, warned,
                   printed, posts, notifyings, settleOrder>>

\* one completion request settles
CompletionSettle(i) ==
    /\ pc = "summarizing"
    /\ ~exited
    /\ i \in 1..Len(summarizings)
    /\ summarizings[i].state = "pending"
    /\ \E outcome \in CompletionOutcomes :
         summarizings' = [summarizings EXCEPT ![i] = Summarizing(completionReqs[i], outcome)]
    /\ settleOrder' = Append(settleOrder, i)
    /\ UNCHANGED <<program, env, pc, exited, exitCode, nowMs, feed, fetchResult,
                   completionReqs, summarizeResult, debugLog, translateReqs,
                   translatings, translatedSummaries, errorLog, warned, printed,
                   posts, notifyings>>

\* `await Promise.allSettled(summarizings)` resumes; summarize() returns
SummarizeReturn ==
    /\ pc = "summarizing"
    /\ ~exited
    /\ AllSettled(summarizings)
    /\ summarizeResult' = DataResult(SummarizedArticles(fetchResult.data, summarizings))
    /\ debugLog' = FailedTitles(fetchResult.data, summarizings, 1)
    /\ pc' = "summarized"
    /\ UNCHANGED <<program, env, exited, exitCode, nowMs, feed, fetchResult,
                   completionReqs, summarizings, translateReqs, translatings,
                   translatedSummaries, errorLog, warned, printed, posts, notifyings,
                   settleOrder>>

----------------------------------------------------------------------------
(* translate and the translatingSummaries callbacks of part_002 *)

\* mutant: article.summary === undefined
SummaryIsUndefined(article) == article.summary = Undefined

\* article.summary == null
SummaryIsNullish(article) == article.summary \in {Undefined, Null}

\* a translating callback: awaiting the fetch, awaiting res.json(), or done
\* `outcome` keeps how the request ended ("-" while pending, "none" without a request)
Translating(article, await) ==
    [state |-> "pending", value |-> article, await |-> await, outcome |-> "-"]
Translated(article, outcome) ==
    [state |-> "fulfilled", value |-> article, await |-> "-", outcome |-> outcome]

\* translate(): the Result for a request of `text` that ended with `outcome`
\*   "throw"        fetch rejected
\*   "notOk"        res.ok === false, body read as JSON
\*   "notOkNoBody"  res.ok === false, res.json() rejected
\*   "ok"           2xx, body parsed, translations[0].text read
\*   "okNoBody"     2xx, res.json() rejected
translate(text, targetLang, outcome) ==
    IF outcome = "ok"
    THEN DataResult(TranslationOf(text, targetLang))
    ELSE ErrorResult

\* mutant: the translated article is rebuilt without its publication date
TranslatedArticleRebuilt(article, translateResult) ==
    IF translateResult.kind = "error"
    THEN article
    ELSE [title |-> article.title, link |-> article.link, pubDate |-> NaN,
          summary |-> translateResult.data]

\* mutant: a failed translation loses the summary
TranslatedArticleDropsSummary(article, translateResult) ==
    IF translateResult.kind = "error"
    THEN [article EXCEPT !.summary = Undefined]
    ELSE [article EXCEPT !.summary = translateResult.data]

\* the rest of the callback once translate() has returned
TranslatedArticle(article, translateResult) ==
    IF translateResult.kind = "error"
    THEN article
    ELSE [article EXCEPT !.summary = translateResult.data]

\* summarizeResult.data.map(async (article) => ...), each callback run to its
\* first await
StartTranslating(articles) ==
    [i \in 1..Len(articles) |->
        IF SummaryIsNullish(articles[i])
        THEN Translated(articles[i], "none")
        ELSE Translating(articles[i], "fetch")]

\* the translation requests that map issues, in index order
RECURSIVE TranslateRequests(_, _)
TranslateRequests(articles, i) ==
    IF i > Len(articles) THEN <<>>
    ELSE (IF SummaryIsNullish(articles[i]) THEN <<>>
          ELSE << [index |-> i, text |-> articles[i].summary, target_lang |-> "ja"] >>)
         \o TranslateRequests(articles, i + 1)

----------------------------------------------------------------------------
(* notifySummarizedArticleToDiscord *)

\* the body of the POST
NotifyContent(article) ==
    [title    |-> article.title,
     link     |-> article.link,
     postedAt |-> <<"ja-JP", "JST", article.pubDate>>,
     summary  |-> article.summary]

\* a notifying callback: awaiting the POST, or settled after a response with
\* `status` ("2xx", "non2xx") or after a transport error ("throw")
Notifying        == [state |-> "pending", status |-> "-"]
\* mutant: a response that is not ok is thrown
NotifiedChecksStatus(status) ==
    [state |-> IF status = "2xx" THEN "fulfilled" ELSE "rejected", status |-> status]

Notified(status) == [state |-> IF status = "throw" THEN "rejected" ELSE "fulfilled",
                     status |-> status]

\* the list main hands to the notifier
NotifiedArticles == summarizeResult.data

\* mutant: the webhook URL is not checked
PrintAndNotifyAlways(list) ==
    /\ printed' = Append(printed, list)
    /\ posts' = [i \in 1..Len(NotifiedArticles) |-> NotifyContent(NotifiedArticles[i])]
    /\ notifyings' = [i \in 1..Len(NotifiedArticles) |-> Notifying]
    /\ settleOrder' = <<>>
    /\ pc' = "notifying"
    /\ UNCHANGED <<warned, exited, exitCode>>

\* mutant: the list is printed only when a webhook is configured
PrintAfterWebhookCheck(list) ==
    IF ~env.DISCORD_WEBHOOK_URL
    THEN /\ warned' = TRUE
         /\ exited' = TRUE
         /\ exitCode' = 0
         /\ UNCHANGED <<pc, printed, posts, notifyings, settleOrder>>
    ELSE /\ printed' = Append(printed, list)
         /\ posts' = [i \in 1..Len(NotifiedArticles) |-> NotifyContent(NotifiedArticles[i])]
         /\ notifyings' = [i \in 1..Len(NotifiedArticles) |-> Notifying]
         /\ settleOrder' = <<>>
         /\ pc' = "notifying"
         /\ UNCHANGED <<warned, exited, exitCode>>

\* console.log(list), then the webhook check and the notifyings map
PrintAndNotify(list) ==
    /\ printed' = Append(printed, list)
    /\ IF ~env.DISCORD_WEBHOOK_URL
       THEN /\ warned' = TRUE
            /\ exited' = TRUE
            /\ exitCode' = 0
            /\ UNCHANGED <<pc, posts, notifyings, settleOrder>>
       ELSE /\ posts' = [i \in 1..Len(NotifiedArticles) |-> NotifyContent(NotifiedArticles[i])]
            /\ notifyings' = [i \in 1..Len(NotifiedArticles) |-> Notifying]
            /\ settleOrder' = <<>>
            /\ pc' = "notifying"
            /\ UNCHANGED <<warned, exited, exitCode>>

\* main after summarize(): the fatal edge; then index.ts prints and notifies,
\* part_002 starts the translations
MainAfterSummarize ==
    /\ pc = "summarized"
    /\ ~exited
    /\ IF summarizeResult.kind = "error"
       THEN /\ errorLog' = errorLog \cup {<<"openai", 0>>}
            /\ exited' = TRUE
            /\ exitCode' = 1
            /\ UNCHANGED <<pc, translateReqs, translatings, warned, printed, posts,
                           notifyings, settleOrder>>
       ELSE IF program = "index"
       THEN /\ PrintAndNotify(summarizeResult.data)
            /\ UNCHANGED <<errorLog, translateReqs, translatings>>
       ELSE /\ translatings' = StartTranslating(summarizeResult.data)
            /\ translateReqs' = TranslateRequests(summarizeResult.data, 1)
            /\ settleOrder' = <<>>
            /\ pc' = "translating"
            /\ UNCHANGED <<errorLog, exited, exitCode, warned, printed, posts,
                           notifyings>>
    /\ UNCHANGED <<program, env, nowMs, feed, fetchResult, completionReqs,
                   summarizings, summarizeResult, debugLog, translatedSummaries>>

\* the request text of the translating callback i
RequestText(i) == translatings[i].value.summary

\* the fetch of translate() settles for callback i
TranslateFetchSettle(i) ==
    /\ pc = "translating"
    /\ ~exited
    /\ i \in 1..Len(translatings)
    /\ translatings[i].state = "pending"
    /\ translatings[i].await = "fetch"
    /\ \E outcome \in {"throw", "ok", "notOk"} :
         IF outcome = "throw"
         THEN /\ translatings' = [translatings EXCEPT ![i] =
                    Translated(TranslatedArticle(translatings[i].value,
                                                 translate(RequestText(i), "ja", "throw")),
                               "throw")]
              /\ errorLog' = errorLog \cup {<<"translate", i>>}
              /\ settleOrder' = Append(settleOrder, i)
         ELSE /\ translatings' = [translatings EXCEPT ![i] =
                    Translating(translatings[i].value, outcome)]
              /\ UNCHANGED <<errorLog, settleOrder>>
    /\ UNCHANGED <<program, env, pc, exited, exitCode, nowMs, feed, fetchResult,
                   completionReqs, summarizings, summarizeResult, debugLog,
                   translateReqs, translatedSummaries, warned, printed, posts,
                   notifyings>>

\* res.json() of translate() settles for callback i; translate() returns and
\* the callback runs to its end
TranslateBodySettle(i) ==
    /\ pc = "translating"
    /\ ~exited
    /\ i \in 1..Len(translatings)
    /\ translatings[i].state = "pending"
    /\ translatings[i].await \in {"ok", "notOk"}
    /\ \E parsed \in BOOLEAN :
         LET outcome == IF translatings[i].await = "ok"
                        THEN (IF parsed THEN "ok" ELSE "okNoBody")
                        ELSE (IF parsed THEN "notOk" ELSE "notOkNoBody")
             result  == translate(RequestText(i), "ja", outcome)
         IN /\ translatings' = [translatings EXCEPT ![i] =
                   Translated(TranslatedArticle(translatings[i].value, result), outcome)]
            /\ errorLog' = IF result.kind = "error"
                           THEN errorLog \cup {<<"translate", i>>}
                           ELSE errorLog
    /\ settleOrder' = Append(settleOrder, i)
    /\ UNCHANGED <<program, env, pc, exited, exitCode, nowMs, feed, fetchResult,
                   completionReqs, summarizings, summarizeResult, debugLog,
                   translateReqs, translatedSummaries, warned, printed, posts,
                   notifyings>>

\* mutant: the translations are not awaited
MainAfterTranslateNoJoin ==
    /\ pc = "translating"
    /\ ~exited
    /\ translatedSummaries' = AwaitAll(translatings)
    /\ PrintAndNotify(translatedSummaries')
    /\ UNCHANGED <<program, env, nowMs, feed, fetchResult, completionReqs,
                   summarizings, summarizeResult, debugLog, translateReqs,
                   translatings, errorLog>>

\* `await Promise.all(translatingSummaries)` resumes: print, then notify
MainAfterTranslate ==
    /\ pc = "translating"
    /\ ~exited
    /\ AllFulfilled(translatings)
    /\ translatedSummaries' = AwaitAll(translatings)
    /\ PrintAndNotify(translatedSummaries')
    /\ UNCHANGED <<program, env, nowMs, feed, fetchResult, completionReqs,
                   summarizings, summarizeResult, debugLog, translateReqs,
                   translatings, errorLog>>

\* one webhook POST settles: any response fulfils, a transport error rejects
NotifySettle(i) ==
    /\ pc = "notifying"
    /\ ~exited
    /\ i \in 1..Len(notifyings)
    /\ notifyings[i].state = "pending"
    /\ ~AnyRejected(notifyings)
    /\ \E outcome \in {"2xx", "non2xx", "throw"} :
         notifyings' = [notifyings EXCEPT ![i] = Notified(outcome)]
    /\ UNCHANGED <<program, env, pc, exited, exitCode, nowMs, feed, fetchResult,
                   completionReqs, summarizings, summarizeResult, debugLog,
                   translateReqs, translatings, translatedSummaries, errorLog,
                   warned, printed, posts, settleOrder>>

\* mutant: main does not await the deliveries before the process ends
MainAfterNotifyExitsEarly ==
    /\ pc = "notifying"
    /\ ~exited
    /\ IF AnyRejected(notifyings)
       THEN /\ errorLog' = errorLog \cup {<<"notify", 0>>}
            /\ exitCode' = 1
       ELSE /\ exitCode' = 0
            /\ UNCHANGED errorLog
    /\ exited' = TRUE
    /\ pc' = "done"
    /\ UNCHANGED <<program, env, nowMs, feed, fetchResult, completionReqs,
                   summarizings, summarizeResult, debugLog, translateReqs,
                   translatings, translatedSummaries, warned, printed, posts,
                   notifyings, settleOrder>>

\* mutant: the catch block logs and lets main return
MainAfterNotifySwallows ==
    /\ pc = "notifying"
    /\ ~exited
    /\ \/ /\ AnyRejected(notifyings)
          /\ errorLog' = errorLog \cup {<<"notify", 0>>}
       \/ /\ AllFulfilled(notifyings)
          /\ UNCHANGED errorLog
    /\ exitCode' = 0
    /\ exited' = TRUE
    /\ pc' = "done"
    /\ UNCHANGED <<program, env, nowMs, feed, fetchResult, completionReqs,
                   summarizings, summarizeResult, debugLog, translateReqs,
                   translatings, translatedSummaries, warned, printed, posts,
                   notifyings, settleOrder>>

\* `await Promise.all(notifyings)` resumes: the catch block, or main returns
MainAfterNotify ==
    /\ pc = "notifying"
    /\ ~exited
    /\ \/ /\ AnyRejected(notifyings)
          /\ errorLog' = errorLog \cup {<<"notify", 0>>}
          /\ exitCode' = 1
       \/ /\ AllFulfilled(notifyings)
          /\ exitCode' = 0
          /\ UNCHANGED errorLog
    /\ exited' = TRUE
    /\ pc' = "done"
    /\ UNCHANGED <<program, env, nowMs, feed, fetchResult, completionReqs,
                   summarizings, summarizeResult, debugLog, translateReqs,
                   translatings, translatedSummaries, warned, printed, posts,
                   notifyings, settleOrder>>

----------------------------------------------------------------------------
(* The recency filter on its own: the filter of                            *)
(* fetchYesterdayArticlesFromTechCrunch applied to any feed at any instant *)

\* the pubDate strings and instants the filter is run on
FilterDateStrings == PubDateStrings \cup {"1970-01-02T12:00:00.000Z"}
FilterClock == {2 * ONE_DAY_MS, 2 * ONE_DAY_MS + 1}
FilterFeeds ==
    UNION { { [k \in 1..n |-> FeedItem(k, ds[k])] : ds \in [1..n -> FilterDateStrings] }
            : n \in 0..MaxArticles }

InitFilter ==
    /\ program \in {"index", "translate"}
    /\ env = [OPEN_AI_API_KEY |-> TRUE, DEEPL_API_AUTH_KEY |-> TRUE,
              DISCORD_WEBHOOK_URL |-> FALSE]
    /\ pc = "filtering"
    /\ exited = FALSE
    /\ exitCode = 0
    /\ nowMs \in FilterClock
    /\ feed \in FilterFeeds
    /\ fetchResult = NoResult
    /\ completionReqs = <<>>
    /\ summarizings = <<>>
    /\ summarizeResult = NoResult
    /\ debugLog = <<>>
    /\ translateReqs = <<>>
    /\ translatings = <<>>
    /\ translatedSummaries = <<>>
    /\ errorLog = {}
    /\ warned = FALSE
    /\ printed = <<>>
    /\ posts = <<>>
    /\ notifyings = <<>>
    /\ settleOrder = <<>>

\* lines 67-80: filter, map, return { data: articles }
FilterApply ==
    /\ pc = "filtering"
    /\ fetchResult' = DataResult(YesterdayArticles(feed, nowMs))
    /\ pc' = "filtered"
    /\ UNCHANGED <<program, env, exited, exitCode, nowMs, feed, completionReqs,
                   summarizings, summarizeResult, debugLog, translateReqs,
                   translatings, translatedSummaries, errorLog, warned, printed,
                   posts, notifyings, settleOrder>>

SpecFilter == InitFilter /\ [][FilterApply]_vars

Next ==
    \/ MainStart
    \/ FeedFetchSettle
    \/ FeedTextSettle
    \/ MainAfterFetch
    \/ \E i \in 1..MaxArticles : CompletionSettle(i)
    \/ SummarizeReturn
    \/ MainAfterSummarize
    \/ \E i \in 1..MaxArticles : TranslateFetchSettle(i)
    \/ \E i \in 1..MaxArticles : TranslateBodySettle(i)
    \/ MainAfterTranslate
    \/ \E i \in 1..MaxArticles : NotifySettle(i)
    \/ MainAfterNotify

Spec == Init /\ [][Next]_vars

\* every network operation that was issued eventually settles, and the event
\* loop runs every continuation that is ready
FairSpec == Spec /\ WF_vars(Next)

----------------------------------------------------------------------------
(* Properties *)

\* the code's own test for a missing summary: summary == null
Absent(summary) == summary \in {Undefined, Null}

Indices(list) == 1..Len(list)

\* the translation stage of part_002 has started
TranslationStarted ==
    program = "translate" /\ summarizeResult.kind = "data" /\ pc # "summarized"

\* translatedSummaries has been assigned
TranslationJoined == program = "translate" /\ printed # <<>>

\* a translation request that ended without a translated text
FailedTranslation(outcome) == outcome \in {"throw", "notOk", "notOkNoBody", "okNoBody"}

\* C1: summarize() always returns the data variant, with one item per input
\* article; an item whose request was rejected has summary undefined, an item
\* whose request was fulfilled carries exactly the content returned for it, a
\* summary is undefined only after a rejection, and every summary that is
\* present is the text written for that article's own link.
C1_SummarizerIsolation ==
    summarizeResult.kind # "none" =>
        /\ summarizeResult.kind = "data"
        /\ Len(summarizeResult.data) = Len(fetchResult.data)
        /\ Len(summarizings) = Len(fetchResult.data)
        /\ \A i \in Indices(fetchResult.data) :
             LET p   == summarizings[i]
                 out == summarizeResult.data[i].summary
             IN /\ p.state = "rejected" => out = Undefined
                /\ p.state = "fulfilled" => out = p.value
                /\ out = Undefined => p.state = "rejected"
                /\ ~Absent(out) => out = SummaryOf(fetchResult.data[i].link)

\* C1 witness: summarize() has returned for at least two articles, one request
\* was rejected and another returned a text
C1_Witness ==
    /\ summarizeResult.kind = "data"
    /\ \E i, j \in Indices(summarizeResult.data) :
         /\ summarizings[i].state = "rejected"
         /\ summarizeResult.data[i].summary = Undefined
         /\ summarizings[j].state = "fulfilled"
         /\ summarizeResult.data[j].summary = SummaryOf(fetchResult.data[j].link)

\* C2: the Summarizer's output has the length of its input and slot i holds
\* the title and link of input article i; the same holds of the Translator's
\* output against the Summarizer's output, whatever order the requests
\* settled in.
C2_OrderAndLength ==
    /\ summarizeResult.kind = "data" =>
         /\ Len(summarizeResult.data) = Len(fetchResult.data)
         /\ \A i \in Indices(fetchResult.data) :
              /\ summarizeResult.data[i].title = fetchResult.data[i].title
              /\ summarizeResult.data[i].link = fetchResult.data[i].link
    /\ TranslationStarted =>
         /\ Len(translatings) = Len(summarizeResult.data)
         /\ \A i \in Indices(translatings) :
              /\ translatings[i].value.title = summarizeResult.data[i].title
              /\ translatings[i].value.link = summarizeResult.data[i].link
    /\ TranslationJoined =>
         /\ Len(translatedSummaries) = Len(summarizeResult.data)
         /\ \A i \in Indices(summarizeResult.data) :
              /\ translatedSummaries[i].title = summarizeResult.data[i].title
              /\ translatedSummaries[i].link = summarizeResult.data[i].link

\* C2 witness: the Translator's output holds at least two articles whose
\* translation requests settled against index order
C2_Witness ==
    /\ TranslationJoined
    /\ exited
    /\ Len(translatedSummaries) >= 2
    /\ \E k \in 1..(Len(settleOrder) - 1) : settleOrder[k] > settleOrder[k + 1]
    /\ \A i \in Indices(translatedSummaries) :
         translatedSummaries[i].title = fetchResult.data[i].title

\* C3: every completion request is issued before any of them settles, and
\* summarize() has a result only when none of its requests is pending; while
\* one is pending the process neither has a result nor has exited.
C3_SettleAllJoin ==
    /\ pc \in {"summarizing", "summarized"} =>
         /\ Len(completionReqs) = Len(fetchResult.data)
         /\ Len(summarizings) = Len(fetchResult.data)
         /\ \A i \in Indices(fetchResult.data) :
              completionReqs[i][2].content = fetchResult.data[i].link
    /\ summarizeResult.kind # "none" =>
         /\ Len(summarizings) = Len(fetchResult.data)
         /\ \A i \in Indices(summarizings) : summarizings[i].state # "pending"
    /\ (\E i \in Indices(summarizings) : summarizings[i].state = "pending") =>
         /\ pc = "summarizing"
         /\ summarizeResult.kind = "none"
         /\ ~exited

\* C3 witness: summarize() has returned, the first request to settle was
\* rejected, and other requests settled after it
C3_Witness ==
    /\ pc = "summarized"
    /\ summarizeResult.kind = "data"
    /\ Len(settleOrder) >= 2
    /\ summarizings[settleOrder[1]].state = "rejected"
    /\ \E i \in Indices(summarizings) : summarizings[i].state = "fulfilled"

\* C4 (as claimed): an article whose completion carried no content comes out
\* of summarize() with summary undefined and with its title in the failure
\* diagnostics, exactly as after a rejection.
C4_NoContentIsItemFailure ==
    summarizeResult.kind = "data" =>
        \A i \in Indices(summarizeResult.data) :
            summarizings[i] = Fulfilled(Null) =>
                /\ summarizeResult.data[i].summary = Undefined
                /\ \E k \in Indices(debugLog) : debugLog[k] = fetchResult.data[i].title

\* C5: a translation request that fails in any way leaves its callback
\* fulfilled with the article unchanged (the original summary) and one error
\* logged for it; a request that succeeds yields the translation of its own
\* summary whatever the others did; no translating promise is ever rejected
\* and the process does not exit while translations are pending.
C5_TranslatorFallback ==
    program = "translate" =>
        /\ \A i \in Indices(translatings) :
             LET t    == translatings[i]
                 orig == summarizeResult.data[i]
             IN /\ t.state \in {"pending", "fulfilled"}
                /\ FailedTranslation(t.outcome) =>
                     /\ t.state = "fulfilled"
                     /\ ~Absent(orig.summary)
                     /\ t.value = orig
                     /\ <<"translate", i>> \in errorLog
                /\ t.outcome = "ok" =>
                     /\ t.value.summary = TranslationOf(orig.summary, "ja")
                     /\ <<"translate", i>> \notin errorLog
        /\ (\E i \in Indices(translatings) : translatings[i].state = "pending") => ~exited
        /\ TranslationJoined =>
             \A i \in Indices(translatings) :
                 FailedTranslation(translatings[i].outcome) =>
                     translatedSummaries[i].summary = summarizeResult.data[i].summary

\* C5 witness: the translations were joined; one failed on a non-2xx status
\* and kept its original summary, another succeeded
C5_Witness ==
    /\ TranslationJoined
    /\ \E i, j \in Indices(translatings) :
         /\ translatings[i].outcome = "notOk"
         /\ translatedSummaries[i].summary = SummaryOf(fetchResult.data[i].link)
         /\ <<"translate", i>> \in errorLog
         /\ translatings[j].outcome = "ok"
         /\ translatedSummaries[j].summary.lang = "ja"

\* C6 (as claimed): once part_002 notifies, one POST was issued per article
\* of the Translator's output and POST i carries the summary of output
\* article i.
C6_NotifierDeliversFinalized ==
    (program = "translate" /\ pc \in {"notifying", "done"}) =>
        /\ Len(posts) = Len(translatedSummaries)
        /\ \A i \in Indices(posts) :
             /\ posts[i].title = translatedSummaries[i].title
             /\ posts[i].summary = translatedSummaries[i].summary

\* C7: once the translation stage has started there is exactly one
\* translation request for each article with a present summary, carrying that
\* summary, and none for an article whose summary is undefined or null; such
\* an article is handed on identical; before the stage, and in index.ts,
\* there is no translation request at all.
C7_TranslationSkip ==
    /\ ~TranslationStarted => translateReqs = <<>>
    /\ TranslationStarted =>
         /\ \A k \in Indices(translateReqs) :
              translateReqs[k].index \in Indices(summarizeResult.data)
         /\ \A i \in Indices(summarizeResult.data) :
              LET article == summarizeResult.data[i]
                  reqs    == {k \in Indices(translateReqs) : translateReqs[k].index = i}
              IN IF Absent(article.summary)
                 THEN /\ reqs = {}
                      /\ translatings[i].value = article
                      /\ translatings[i].outcome = "none"
                      /\ TranslationJoined => translatedSummaries[i] = article
                 ELSE /\ Cardinality(reqs) = 1
                      /\ \A k \in reqs : translateReqs[k].text = article.summary

\* C7 witness: the translations were joined for a batch with an undefined
\* summary, a null summary and a present one
C7_Witness ==
    /\ TranslationJoined
    /\ Len(translateReqs) >= 1
    /\ \E i, j \in Indices(summarizeResult.data) :
         /\ summarizeResult.data[i].summary = Undefined
         /\ translatedSummaries[i] = summarizeResult.data[i]
         /\ summarizeResult.data[j].summary = Null
         /\ translatedSummaries[j] = summarizeResult.data[j]

\* C8, state part: after a failed feed fetch no completion, translation or notification
\* request is ever issued and nothing is printed; the only step the process
\* takes is to log the error and exit with code 1. The same holds of an
\* error Result of summarize() for translation and notification requests.
C8_FatalEdgesInv ==
    /\ fetchResult.kind = "error" =>
         /\ pc = "fetched"
         /\ completionReqs = <<>> /\ translateReqs = <<>> /\ posts = <<>>
         /\ summarizings = <<>> /\ printed = <<>>
         /\ exited => (exitCode = 1 /\ <<"feed", 0>> \in errorLog)
    /\ summarizeResult.kind = "error" =>
         /\ pc = "summarized"
         /\ translateReqs = <<>> /\ posts = <<>> /\ printed = <<>>
         /\ exited => (exitCode = 1 /\ <<"openai", 0>> \in errorLog)

\* C8, step part: the step taken after a fatal error is the exit with code 1
C8_FatalEdgesStep ==
    /\ (fetchResult.kind = "error" /\ ~exited) =>
         (exited' /\ exitCode' = 1 /\ <<"feed", 0>> \in errorLog')
    /\ (summarizeResult.kind = "error" /\ ~exited) =>
         (exited' /\ exitCode' = 1 /\ <<"openai", 0>> \in errorLog')

\* C8: a failed feed fetch (or an error Result of summarize()) is followed by
\* nothing but the logged exit with code 1, and no later stage issues a request.
C8_FatalEdges == [](C8_FatalEdgesInv) /\ [][C8_FatalEdgesStep]_vars

\* C8 witness: the feed fetch failed and the process has exited with code 1
\* without issuing a request
C8_Witness ==
    /\ fetchResult.kind = "error"
    /\ exited /\ exitCode = 1
    /\ <<"feed", 0>> \in errorLog
    /\ completionReqs = <<>>

\* C9: once the feed fetch has succeeded the process exits only after the
\* article list was printed, whatever requests failed; the list is printed at
\* most once, it is printed before any notification request, it holds one
\* entry per filtered article in feed order, and it is the Summarizer's
\* output in index.ts and the Translator's output in part_002; an exit
\* without a webhook has code 0.
C9_ItemFailuresNotFatal ==
    /\ Len(printed) <= 1
    /\ (fetchResult.kind = "data" /\ exited) => Len(printed) = 1
    /\ (pc \in {"notifying", "done"} \/ posts # <<>>) => Len(printed) = 1
    /\ (fetchResult.kind = "data" /\ exited /\ ~env.DISCORD_WEBHOOK_URL) => exitCode = 0
    /\ printed # <<>> =>
         /\ Len(printed[1]) = Len(fetchResult.data)
         /\ \A i \in Indices(fetchResult.data) :
              /\ printed[1][i].title = fetchResult.data[i].title
              /\ printed[1][i].link = fetchResult.data[i].link
         /\ printed[1] = IF program = "index" THEN summarizeResult.data
                         ELSE translatedSummaries

\* C9 witness: part_002 has printed a list that holds an article whose
\* summarization failed and one whose translation failed, and exited with 0
C9_Witness ==
    /\ program = "translate"
    /\ exited /\ exitCode = 0
    /\ Len(printed) = 1
    /\ \E i, j \in Indices(printed[1]) :
         /\ summarizings[i].state = "rejected"
         /\ printed[1][i].summary = Undefined
         /\ FailedTranslation(translatings[j].outcome)
         /\ printed[1][j].summary = summarizeResult.data[j].summary

\* C10, state part: main ends its notification stage with exit code 1 and the error
\* logged when a delivery was rejected, and with exit code 0 when every
\* delivery was fulfilled; a rejected delivery leaves the process no other
\* step than that exit.
C10_DeliveryFailureFatalInv ==
    pc = "done" =>
        /\ exited
        /\ env.DISCORD_WEBHOOK_URL
        /\ (\E i \in Indices(notifyings) : notifyings[i].state = "rejected") =>
             (exitCode = 1 /\ <<"notify", 0>> \in errorLog)
        /\ (\A i \in Indices(notifyings) : notifyings[i].state = "fulfilled") =>
             (exitCode = 0 /\ <<"notify", 0>> \notin errorLog)
        /\ \/ \E i \in Indices(notifyings) : notifyings[i].state = "rejected"
           \/ \A i \in Indices(notifyings) : notifyings[i].state = "fulfilled"

\* C10, step part: the step taken after a rejected delivery is the exit with code 1
C10_DeliveryFailureFatalStep ==
    (~exited /\ \E i \in Indices(notifyings) : notifyings[i].state = "rejected") =>
        (exited' /\ exitCode' = 1 /\ <<"notify", 0>> \in errorLog')

\* C10: a rejected delivery is followed by nothing but the logged exit with
\* code 1; a notification stage whose deliveries were all fulfilled ends with
\* exit code 0.
C10_DeliveryFailureFatal ==
    [](C10_DeliveryFailureFatalInv) /\ [][C10_DeliveryFailureFatalStep]_vars

\* C10 witness: one delivery was fulfilled, another was rejected, and the
\* process has exited with code 1
C10_Witness ==
    /\ pc = "done"
    /\ exitCode = 1
    /\ \E i, j \in Indices(notifyings) :
         /\ notifyings[i].state = "rejected"
         /\ notifyings[j].state = "fulfilled"

\* a notification request of the batch is still in flight
NotifyInFlight == \E i \in Indices(notifyings) : notifyings[i].state = "pending"

\* C11 (as claimed): the process never exits while a notification request of
\* the batch is still in flight.
C11_NoExitWhileInFlight == exited => ~NotifyInFlight

\* C11 (amended): the process exits with a notification request in flight
\* only through the exit with code 1 that follows a rejected notification,
\* which is surfaced at once; a run without a rejected notification ends with
\* code 0 only when every notification was fulfilled.
C11_ExitInFlightOnlyOnRejection ==
    /\ (exited /\ NotifyInFlight) =>
         /\ pc = "done"
         /\ exitCode = 1
         /\ <<"notify", 0>> \in errorLog
         /\ Cardinality({i \in Indices(notifyings) : notifyings[i].state = "rejected"}) = 1
    /\ (pc = "done" /\ exitCode = 0) =>
         \A i \in Indices(notifyings) : notifyings[i].state = "fulfilled"
    /\ Cardinality({i \in Indices(notifyings) : notifyings[i].state = "rejected"}) <= 1

\* C11 witness: the process has exited with code 1 after one rejected
\* notification while another notification was still in flight
C11_Witness ==
    /\ exited /\ exitCode = 1
    /\ \E i, j \in Indices(notifyings) :
         /\ notifyings[i].state = "rejected"
         /\ notifyings[j].state = "pending"

\* the credentials the running program requires are all set
RequiredCredentialsSet ==
    env.OPEN_AI_API_KEY /\ (program = "translate" => env.DEEPL_API_AUTH_KEY)

\* no network operation has been initiated
NoNetworkActivity ==
    /\ pc = "start"
    /\ fetchResult = NoResult
    /\ completionReqs = <<>> /\ translateReqs = <<>> /\ posts = <<>>

\* C12, state part: with a required credential missing no network operation
\* is ever initiated, and an exit has code 1 and the guidance printed
C12_PreflightInv ==
    ~RequiredCredentialsSet =>
        /\ NoNetworkActivity
        /\ printed = <<>>
        /\ exited => (exitCode = 1 /\ <<"env", 0>> \in errorLog)

\* C12, step part: the step taken with a credential missing is the exit with code 1
C12_PreflightStep ==
    (~RequiredCredentialsSet /\ ~exited) =>
        (exited' /\ exitCode' = 1 /\ <<"env", 0>> \in errorLog' /\ NoNetworkActivity')

\* C12: if a required credential is missing the process prints guidance and
\* exits with code 1 before any network operation has been initiated.
C12_Preflight == [](C12_PreflightInv) /\ [][C12_PreflightStep]_vars

\* C12 witness: part_002 without the DeepL key has exited with code 1 at the
\* start of main
C12_Witness ==
    /\ program = "translate"
    /\ env.OPEN_AI_API_KEY /\ ~env.DEEPL_API_AUTH_KEY
    /\ exited /\ exitCode = 1
    /\ <<"env", 0>> \in errorLog
    /\ NoNetworkActivity

\* C13: without a webhook URL no notification request is ever issued; once
\* summarization has succeeded and the list is printed, the process has
\* warned and exited with code 0, and it warns and exits that way only with
\* the list printed.
C13_MissingWebhook ==
    /\ ~env.DISCORD_WEBHOOK_URL =>
         /\ posts = <<>> /\ notifyings = <<>>
         /\ pc \notin {"notifying", "done"}
         /\ printed # <<>> => (exited /\ exitCode = 0 /\ warned)
         /\ (summarizeResult.kind = "data" /\ exited) =>
              (warned /\ exitCode = 0 /\ Len(printed) = 1)
    /\ warned =>
         /\ ~env.DISCORD_WEBHOOK_URL
         /\ exited /\ exitCode = 0
         /\ Len(printed) = 1
         /\ Len(printed[1]) = Len(fetchResult.data)

\* C13 witness: a run without webhook URL has printed a non-empty list,
\* warned and exited with code 0 without issuing a notification
C13_Witness ==
    /\ ~env.DISCORD_WEBHOOK_URL
    /\ exited /\ exitCode = 0 /\ warned
    /\ Len(printed) = 1 /\ Len(printed[1]) >= 1
    /\ posts = <<>>

\* the positions of `feed` whose pubDate parses to an instant strictly later
\* than `nowMs` minus 24 hours
RecentPositions ==
    {k \in Indices(feed) :
        /\ DateParse(feed[k].pubDate) # NaN
        /\ DateParse(feed[k].pubDate) > nowMs - ONE_DAY_MS}

\* C14: the filter returns exactly the entries whose parsed pubDate is
\* strictly greater than now minus 24 hours, so an entry exactly 24 hours old
\* and an entry with an unparsable pubDate are excluded, and the retained
\* entries keep their relative order (item k of the feed has title k).
C14_RecencyFilter ==
    pc = "filtered" =>
        LET out == fetchResult.data
        IN /\ fetchResult.kind = "data"
           /\ Len(out) = Cardinality(RecentPositions)
           /\ \A i \in Indices(out) :
                /\ out[i].title \in RecentPositions
                /\ out[i] = feed[out[i].title]
           /\ \A i, j \in Indices(out) : i < j => out[i].title < out[j].title
           /\ \A k \in Indices(feed) :
                (\/ feed[k].pubDate = "yesterday"
                 \/ DateParse(feed[k].pubDate) = nowMs - ONE_DAY_MS)
                => \A i \in Indices(out) : out[i].title # k

\* C14 witness: the filter has dropped an entry exactly 24 hours old and an
\* unparsable one, and kept a recent entry that follows the former
C14_Witness ==
    /\ pc = "filtered"
    /\ Len(fetchResult.data) >= 1
    /\ \E a, b, c \in Indices(feed) :
         /\ a < c
         /\ DateParse(feed[a].pubDate) = nowMs - ONE_DAY_MS
         /\ feed[b].pubDate = "yesterday"
         /\ c \in RecentPositions
         /\ \E i \in Indices(fetchResult.data) : fetchResult.data[i] = feed[c]

\* C15: no completion request exists before the fetch has returned the
\* filtered list; no translation request exists before summarize() has
\* returned with every completion request settled; no notification request
\* exists before the list was printed and, in part_002, before every
\* translation has settled.
C15_StageSequencing ==
    /\ pc \in {"start", "fetching", "readingFeed", "fetched"} =>
         completionReqs = <<>> /\ translateReqs = <<>> /\ posts = <<>>
    /\ completionReqs # <<>> => fetchResult.kind = "data"
    /\ pc \in {"summarizing", "summarized"} =>
         translateReqs = <<>> /\ translatings = <<>> /\ posts = <<>>
    /\ (translateReqs # <<>> \/ translatings # <<>>) =>
         /\ summarizeResult.kind = "data"
         /\ \A i \in Indices(summarizings) : summarizings[i].state # "pending"
    /\ (posts # <<>> \/ pc \in {"notifying", "done"}) =>
         /\ Len(printed) = 1
         /\ summarizeResult.kind = "data"
         /\ \A i \in Indices(summarizings) : summarizings[i].state # "pending"
         /\ program = "translate" =>
              /\ Len(translatings) = Len(summarizeResult.data)
              /\ \A i \in Indices(translatings) : translatings[i].state = "fulfilled"

\* C15 witness: part_002 is notifying at least two articles after at least
\* one translation request
C15_Witness ==
    /\ program = "translate"
    /\ pc = "notifying"
    /\ Len(posts) >= 2
    /\ Len(translateReqs) >= 1
    /\ Len(completionReqs) = Len(posts)

\* summarize() has been called
SummarizeCalled == fetchResult.kind = "data" /\ pc # "fetched"

\* C16: from the call of summarize() on there is exactly one completion
\* request per input article, in input order, made of the system prompt and
\* of that article's link as user message, and their number never changes
\* afterwards, whatever the requests' outcomes; for an empty list there is no
\* request and summarize() returns data holding the empty list.
C16_CompletionRequestCount ==
    /\ ~SummarizeCalled => completionReqs = <<>>
    /\ SummarizeCalled =>
         /\ Len(completionReqs) = Len(fetchResult.data)
         /\ \A i \in Indices(fetchResult.data) :
              /\ Len(completionReqs[i]) = 2
              /\ completionReqs[i][1].role = "system"
              /\ completionReqs[i][1].content = SYSTEM_PROMPT
              /\ completionReqs[i][2].role = "user"
              /\ completionReqs[i][2].content = fetchResult.data[i].link
    /\ (SummarizeCalled /\ fetchResult.data = <<>> /\ pc # "summarizing") =>
         summarizeResult = DataResult(<<>>)

\* C16 witness: summarize() has returned for at least two articles, one of
\* whose requests was rejected, and there is still one request per article
C16_Witness ==
    /\ summarizeResult.kind = "data"
    /\ Len(summarizeResult.data) >= 2
    /\ Len(completionReqs) = Len(summarizeResult.data)
    /\ \E i \in Indices(summarizings) : summarizings[i].state = "rejected"
    /\ exited

\* the empty input: summarize() has returned the empty list without a request
C16_EmptyInputReached ==
    /\ summarizeResult = DataResult(<<>>)
    /\ completionReqs = <<>>
    /\ exited

\* C17: after a successful translation the callback's article has the title,
\* link and pubDate of its input and the translation of the input's summary
\* as summary, and nothing else; the article in the Summarizer's output still
\* holds the untranslated text, and the joined list holds the new article.
C17_TranslationFrame ==
    program = "translate" =>
        \A i \in Indices(translatings) :
            translatings[i].outcome = "ok" =>
                LET input  == summarizeResult.data[i]
                    output == translatings[i].value
                IN /\ DOMAIN output = DOMAIN input
                   /\ output.title = input.title
                   /\ output.link = input.link
                   /\ output.pubDate = input.pubDate
                   /\ output.summary = TranslationOf(input.summary, "ja")
                   /\ output.summary # input.summary
                   /\ output = [input EXCEPT !.summary = output.summary]
                   /\ input.summary = SummaryOf(fetchResult.data[i].link)
                   /\ input.summary = summarizings[i].value
                   /\ TranslationJoined => translatedSummaries[i] = output

\* C17 witness: the translations were joined and one of them succeeded; the
\* output article carries the Japanese text, the Summarizer's article still
\* the English one
C17_Witness ==
    /\ TranslationJoined
    /\ \E i \in Indices(translatings) :
         /\ translatings[i].outcome = "ok"
         /\ translatedSummaries[i].summary.lang = "ja"
         /\ summarizeResult.data[i].summary.lang = "en"
         /\ translatedSummaries[i].pubDate = summarizeResult.data[i].pubDate

\* C19: a delivery is rejected exactly when its POST threw; a POST answered
\* with any status, 2xx or not, is fulfilled, so a run in which every POST
\* got a response ends with exit code 0 and no delivery error logged.
C19_Non2xxIsNotFailure ==
    /\ \A i \in Indices(notifyings) :
         /\ notifyings[i].state = "rejected" <=> notifyings[i].status = "throw"
         /\ notifyings[i].status \in {"2xx", "non2xx"} => notifyings[i].state = "fulfilled"
    /\ (pc = "done"
        /\ \A i \in Indices(notifyings) : notifyings[i].status \in {"2xx", "non2xx"}) =>
         (exited /\ exitCode = 0 /\ <<"notify", 0>> \notin errorLog)

\* C19 witness: the run has ended with code 0 although a POST was answered
\* with a non-2xx status
C19_Witness ==
    /\ pc = "done"
    /\ exited /\ exitCode = 0
    /\ \E i \in Indices(notifyings) : notifyings[i].status = "non2xx"

\* a request of the current stage has not settled, and no notification was
\* rejected
StageInFlight ==
    \/ \E i \in Indices(summarizings) : summarizings[i].state = "pending"
    \/ \E i \in Indices(translatings) : translatings[i].state = "pending"
    \/ /\ NotifyInFlight
       /\ \A i \in Indices(notifyings) : notifyings[i].state # "rejected"

\* the ways the process ends
ExitPath ==
    \/ pc = "start" /\ ~RequiredCredentialsSet /\ exitCode = 1
    \/ pc = "fetched" /\ fetchResult.kind = "error" /\ exitCode = 1
    \/ pc = "summarized" /\ summarizeResult.kind = "error" /\ exitCode = 1
    \/ warned /\ ~env.DISCORD_WEBHOOK_URL /\ exitCode = 0
    \/ pc = "done" /\ exitCode = 1 /\ <<"notify", 0>> \in errorLog
    \/ pc = "done" /\ exitCode = 0 /\ ~NotifyInFlight

\* a request of the current stage has not settled
AnyRequestInFlight ==
    \/ \E i \in Indices(summarizings) : summarizings[i].state = "pending"
    \/ \E i \in Indices(translatings) : translatings[i].state = "pending"
    \/ NotifyInFlight

\* C18 (as claimed): every run eventually ends, and until then it waits for
\* as long as any request of the current stage has not settled.
C18_TerminationWaitingForAll == <>exited /\ [](AnyRequestInFlight => ~exited)

\* C18, state part: the process has not ended while a request of the current
\* stage is unsettled and no notification was rejected, and it ends through
\* one of the exit paths only
C18_WaitsInv ==
    /\ StageInFlight => ~exited
    /\ exited => ExitPath

\* C18 (amended): when every issued network operation eventually settles,
\* every run eventually ends, through one of the exit paths or by main
\* returning; until then it waits for as long as a request of the current
\* stage is unsettled, unless a notification was rejected.
C18_Termination == <>exited /\ [](C18_WaitsInv)

\* C18 witness: part_002 has run through every stage and main has returned
\* after at least two fulfilled notifications
C18_Witness ==
    /\ program = "translate"
    /\ pc = "done" /\ exited /\ exitCode = 0
    /\ Len(notifyings) >= 2
    /\ Len(translateReqs) >= 1
    /\ ~NotifyInFlight
====
